---- MODULE Spec2Model ----
(***************************************************************************)
(* Model of the iwd block, src/src/blocks/iwd/mod.rs.                      *)
(*                                                                         *)
(* Three execution contexts share one Arc<Mutex<IWDPrivate>>:              *)
(*   - ConfigBlock::new on the caller's thread (lines 74-137),             *)
(*   - the thread it spawns, the subscriber (lines 87-121),                *)
(*   - Block::update, the renderer, called by the scheduler (145-160).     *)
(* The mutex follows std::sync::Mutex: a guard dropped while its thread    *)
(* panics poisons the mutex, and lock().unwrap() on a poisoned mutex       *)
(* panics.  The system bus is the environment: every bus call returns a    *)
(* reply or an error, and messages arrive on the subscriber's connection   *)
(* once its match rule is registered.                                      *)
(***************************************************************************)
EXTENDS Naturals, Sequences, FiniteSets

\* ---- bounds of the model ------------------------------------------------
MaxSignals == 2   \* messages the bus delivers in one behaviour
MaxQueue == 1     \* messages waiting on the subscriber's connection
MaxUpdates == 2   \* invocations of Block::update in one behaviour

\* ---- constants of the program -------------------------------------------
STATE_CONNECTED == "connected"
STATE_DISCONNECTED == "disconnected"
STATE_DISCONNECTING == "disconnecting"

\* IWDConfig.disconnected_str, the placeholder of the configuration
disconnected_str == "down"

\* ---- the bus, as the program sees it ------------------------------------
\* state strings the device reports; "connecting" stands for every string
\* the block has no constant for
StateStrings == {STATE_CONNECTED, STATE_DISCONNECTED, STATE_DISCONNECTING, "connecting"}
\* object paths of the networks known to the daemon
NetworkObjs == {"/net/n1"}
\* Name property of a network object
NetworkName == [p \in NetworkObjs |-> "HomeWiFi"]

\* a D-Bus variant: a string, a value of another type, or no entry at all
Str(s) == <<"str", s>>
NonStr == <<"u32", "7">>
Absent == <<"absent", "">>
\* RefArg::as_str: Some(s) for a string, None for every other type
IsStr(v) == v[1] = "str"

StateValues == {Str(s) : s \in StateStrings} \cup {NonStr, Absent}
NetworkValues == {Str(p) : p \in NetworkObjs} \cup {NonStr, Absent}

\* ConnectionItem values the iterator yields: a PropertiesChanged signal with
\* its changed_properties, another signal, or an item that is no signal
PropsChangedMsgs == [kind : {"props"}, network : NetworkValues, state : StateValues]
OtherMsgs == [kind : {"signal", "nothing"}, network : {Absent}, state : {Absent}]
Messages == PropsChangedMsgs \cup OtherMsgs
NoMsg == [kind |-> "none", network |-> Absent, state |-> Absent]

\* ---- widget ---------------------------------------------------------------
Mut_get_widget_state(state) ==
    IF state = STATE_DISCONNECTED \/ state = STATE_DISCONNECTING THEN "Critical"
    ELSE IF state = STATE_CONNECTED THEN "Good"
    ELSE "Warning"

get_widget_state(state) ==
    IF state = STATE_DISCONNECTED THEN "Critical"
    ELSE IF state = STATE_CONNECTED THEN "Good"
    ELSE "Warning"

\* the arms of the match in update that take the placeholder
Mut6_UsesPlaceholder(state) == state = STATE_DISCONNECTING

Mut8_UsesPlaceholder(state) == state = STATE_DISCONNECTED

UsesPlaceholder(state) == state = STATE_DISCONNECTED \/ state = STATE_DISCONNECTING

\* ---- state ----------------------------------------------------------------
VARIABLES
    cur_state,    \* IWDPrivate behind the mutex: [state, network_obj]
    owner,        \* holder of the mutex guard: "none", "sub", "upd"
    poisoned,     \* the mutex's poison flag
    new_result,   \* ConfigBlock::new on the caller's thread: "pending", "Ok", "Err"
    sub_pc,       \* position of the spawned thread
    panic_at,     \* position at which the spawned thread panicked, or "none"
    msg,          \* the PropertiesChanged signal the loop is working on
    queue,        \* messages waiting on the subscriber's connection
    delivered,    \* number of messages the bus has delivered
    sent,         \* number of Tasks sent to the scheduler
    upd_pc,       \* position of the running update, or "idle"
    upd_result,   \* outcome of the last update: "none", "running", "Ok", "panic"
    updates,      \* number of update invocations
    network,      \* the TextWidget: [text, state]
    call_path,    \* path of the get_name call this update issued, or NoCall
    r_state,      \* history: state string this update read, or NotRead
    committed,    \* history: IWDPrivate when the subscriber last dropped its guard
    expect,       \* history: per field, last string a taken signal carried for it
    disconnect,   \* IWD.disconnect, the optional button: "Some" or "None"
    clicks,       \* number of click invocations
    click_name,   \* event.name of the last click, or NoClick
    click_cmd,    \* whether the last click issued the Disconnect call
    click_result, \* outcome of the last click: "none", "Ok", "panic"
    dev           \* the device as the daemon has it: [state, network_obj]

vars == <<cur_state, owner, poisoned, new_result, sub_pc, panic_at, msg, queue,
          delivered, sent, upd_pc, upd_result, updates, network, call_path,
          r_state, committed, expect, disconnect, clicks, click_name,
          click_cmd, click_result, dev>>

subVars == <<sub_pc, panic_at, msg, queue, sent, committed, expect>>
updVars == <<upd_pc, upd_result, updates, network, call_path, r_state>>
clickVars == <<clicks, click_name, click_cmd, click_result>>
extVars == <<disconnect, clicks, click_name, click_cmd, click_result, dev>>

NoCall == "<no call>"
NotRead == "<not read>"
NoClick == "<no click>"

\* #[derive(Default)] for IWDPrivate: two empty strings
DefaultPrivate == [state |-> "", network_obj |-> ""]

\* the state after thread::spawn in ConfigBlock::new (line 87)
InitProgram ==
    /\ cur_state = DefaultPrivate
    /\ owner = "none"
    /\ poisoned = FALSE
    /\ new_result = "pending"
    /\ sub_pc = "connect"
    /\ panic_at = "none"
    /\ msg = NoMsg
    /\ queue = <<>>
    /\ delivered = 0
    /\ sent = 0
    /\ upd_pc = "idle"
    /\ upd_result = "none"
    /\ updates = 0
    /\ network = [text |-> STATE_DISCONNECTED, state |-> "Critical"]
    /\ call_path = NoCall
    /\ r_state = NotRead
    /\ committed = DefaultPrivate
    /\ expect = DefaultPrivate
    /\ clicks = 0
    /\ click_name = NoClick
    /\ click_cmd = FALSE
    /\ click_result = "none"

\* the states of the device: idle, or with a network in one of the states
\* in which it has one
DevStates ==
    {[state |-> STATE_DISCONNECTED, network_obj |-> ""]}
    \cup [state : StateStrings \ {STATE_DISCONNECTED}, network_obj : {"/net/n1"}]

\* show_disconnect_btn = false, and the replies of the bus left open
Init ==
    /\ InitProgram
    /\ disconnect = "None"
    /\ dev = [state |-> STATE_DISCONNECTED, network_obj |-> ""]

\* ---- the mutex ------------------------------------------------------------
\* a guard dropped by a panicking thread: the mutex is released and poisoned
PanicWithGuard ==
    /\ owner' = "none"
    /\ poisoned' = TRUE

\* the spawned thread ends in a panic at position at
SubPanic(at) ==
    /\ sub_pc' = "panicked"
    /\ panic_at' = at

\* ---- ConfigBlock::new, the caller's thread --------------------------------
\* lines 123-136: the IWD value is built; Connection::get_private may fail,
\* and block_error with ? turns that into the Err that new returns
NewReturn ==
    /\ new_result = "pending"
    /\ \E r \in {"Ok", "Err"} : new_result' = r
    /\ UNCHANGED <<cur_state, owner, poisoned, delivered>>
    /\ UNCHANGED subVars
    /\ UNCHANGED updVars
    /\ UNCHANGED extVars

\* ---- the spawned thread: startup ------------------------------------------
\* line 88: Connection::get_private(BusType::System).unwrap()
SubConnect ==
    /\ sub_pc = "connect"
    /\ \E ok \in BOOLEAN :
         IF ok THEN sub_pc' = "init_lock" /\ panic_at' = panic_at
         ELSE SubPanic("connect")
    /\ UNCHANGED <<cur_state, owner, poisoned, new_result, delivered>>
    /\ UNCHANGED <<msg, queue, sent, committed, expect>>
    /\ UNCHANGED updVars
    /\ UNCHANGED extVars

\* line 91: cur_state.lock().unwrap()
SubInitLock ==
    /\ sub_pc = "init_lock"
    /\ owner = "none"
    /\ IF poisoned
       THEN SubPanic("init_lock") /\ owner' = owner
       ELSE sub_pc' = "get_state" /\ panic_at' = panic_at /\ owner' = "sub"
    /\ UNCHANGED <<cur_state, poisoned, new_result, delivered>>
    /\ UNCHANGED <<msg, queue, sent, committed, expect>>
    /\ UNCHANGED updVars
    /\ UNCHANGED extVars

\* lines 92-94: state.state = device.get_state().unwrap(), under the guard
SubGetState ==
    /\ sub_pc = "get_state"
    /\ \/ \E s \in StateStrings :
            /\ cur_state' = [cur_state EXCEPT !.state = s]
            /\ sub_pc' = IF s = STATE_CONNECTED THEN "get_network" ELSE "init_unlock"
            /\ UNCHANGED <<panic_at, owner, poisoned>>
       \/ /\ SubPanic("get_state")
          /\ PanicWithGuard
          /\ cur_state' = cur_state
    /\ UNCHANGED <<new_result, delivered>>
    /\ UNCHANGED <<msg, queue, sent, committed, expect>>
    /\ UNCHANGED updVars
    /\ UNCHANGED extVars

\* line 95: state.network_obj = device.get_connected_network().unwrap()
SubGetNetwork ==
    /\ sub_pc = "get_network"
    /\ \/ \E p \in NetworkObjs :
            /\ cur_state' = [cur_state EXCEPT !.network_obj = p]
            /\ sub_pc' = "init_unlock"
            /\ UNCHANGED <<panic_at, owner, poisoned>>
       \/ /\ SubPanic("get_network")
          /\ PanicWithGuard
          /\ cur_state' = cur_state
    /\ UNCHANGED <<new_result, delivered>>
    /\ UNCHANGED <<msg, queue, sent, committed, expect>>
    /\ UNCHANGED updVars
    /\ UNCHANGED extVars

\* line 97: the block ends and the guard is dropped
SubInitUnlock ==
    /\ sub_pc = "init_unlock"
    /\ owner' = "none"
    /\ sub_pc' = "add_match"
    /\ committed' = cur_state
    /\ expect' = cur_state
    /\ UNCHANGED <<cur_state, poisoned, new_result, delivered>>
    /\ UNCHANGED <<panic_at, msg, queue, sent>>
    /\ UNCHANGED updVars
    /\ UNCHANGED extVars

\* lines 98-101: c.add_match(...).unwrap()
SubAddMatch ==
    /\ sub_pc = "add_match"
    /\ \E ok \in BOOLEAN :
         IF ok THEN sub_pc' = "iter" /\ panic_at' = panic_at
         ELSE SubPanic("add_match")
    /\ UNCHANGED <<cur_state, owner, poisoned, new_result, delivered>>
    /\ UNCHANGED <<msg, queue, sent, committed, expect>>
    /\ UNCHANGED updVars
    /\ UNCHANGED extVars

\* positions of the thread at which its match rule is registered
LoopPcs == {"iter", "sig_lock", "sig_network", "sig_state", "sig_send", "sig_unlock"}

\* ---- the bus delivers a message to the subscriber's connection -------------
Deliver(m) ==
    /\ sub_pc \in LoopPcs
    /\ delivered < MaxSignals
    /\ Len(queue) < MaxQueue
    /\ queue' = Append(queue, m)
    /\ delivered' = delivered + 1
    /\ UNCHANGED <<cur_state, owner, poisoned, new_result>>
    /\ UNCHANGED <<sub_pc, panic_at, msg, sent, committed, expect>>
    /\ UNCHANGED updVars
    /\ UNCHANGED extVars

\* ---- the spawned thread: the loop ------------------------------------------
\* per field, the string the signal m carries for it, else the value before
ExpectAfter(e, m) ==
    [state |-> IF IsStr(m.state) THEN m.state[2] ELSE e.state,
     network_obj |-> IF IsStr(m.network) THEN m.network[2] ELSE e.network_obj]

\* lines 103-105: the iterator yields the next item; only a signal that
\* PropsChanged::from_message accepts goes on, every other item is dropped
SubNext ==
    /\ sub_pc = "iter"
    /\ queue # <<>>
    /\ queue' = Tail(queue)
    /\ IF Head(queue).kind = "props"
       THEN /\ msg' = Head(queue)
            /\ sub_pc' = "sig_lock"
            /\ expect' = ExpectAfter(expect, Head(queue))
       ELSE UNCHANGED <<msg, sub_pc, expect>>
    /\ UNCHANGED <<cur_state, owner, poisoned, new_result, delivered>>
    /\ UNCHANGED <<panic_at, sent, committed>>
    /\ UNCHANGED updVars
    /\ UNCHANGED extVars

\* line 106: cur_state.lock().unwrap()
SubSigLock ==
    /\ sub_pc = "sig_lock"
    /\ owner = "none"
    /\ IF poisoned
       THEN SubPanic("sig_lock") /\ owner' = owner
       ELSE sub_pc' = "sig_network" /\ panic_at' = panic_at /\ owner' = "sub"
    /\ UNCHANGED <<cur_state, poisoned, new_result, delivered>>
    /\ UNCHANGED <<msg, queue, sent, committed, expect>>
    /\ UNCHANGED updVars
    /\ UNCHANGED extVars

\* lines 107-109: changed_properties.get(CHANGE_NETWORK), as_str().unwrap()
SubSigNetwork ==
    /\ sub_pc = "sig_network"
    /\ IF msg.network = Absent
       THEN /\ sub_pc' = "sig_state"
            /\ UNCHANGED <<cur_state, panic_at, owner, poisoned>>
       ELSE IF IsStr(msg.network)
       THEN /\ cur_state' = [cur_state EXCEPT !.network_obj = msg.network[2]]
            /\ sub_pc' = "sig_state"
            /\ UNCHANGED <<panic_at, owner, poisoned>>
       ELSE /\ SubPanic("sig_network")
            /\ PanicWithGuard
            /\ cur_state' = cur_state
    /\ UNCHANGED <<new_result, delivered>>
    /\ UNCHANGED <<msg, queue, sent, committed, expect>>
    /\ UNCHANGED updVars
    /\ UNCHANGED extVars

\* a loop that drops the object path when the new state is not "connected"
Mut11_SubSigState ==
    /\ sub_pc = "sig_state"
    /\ IF msg.state = Absent
       THEN /\ sub_pc' = "sig_send"
            /\ UNCHANGED <<cur_state, panic_at, owner, poisoned>>
       ELSE IF IsStr(msg.state)
       THEN /\ cur_state' = [state |-> msg.state[2],
                             network_obj |-> IF msg.state[2] = STATE_CONNECTED
                                             THEN cur_state.network_obj ELSE ""]
            /\ sub_pc' = "sig_send"
            /\ UNCHANGED <<panic_at, owner, poisoned>>
       ELSE /\ SubPanic("sig_state")
            /\ PanicWithGuard
            /\ cur_state' = cur_state
    /\ UNCHANGED <<new_result, delivered>>
    /\ UNCHANGED <<msg, queue, sent, committed, expect>>
    /\ UNCHANGED updVars
    /\ UNCHANGED extVars

\* a loop that notifies without having written the new state
Mut20_SubSigState ==
    /\ sub_pc = "sig_state"
    /\ sub_pc' = "sig_send"
    /\ UNCHANGED <<cur_state, panic_at, owner, poisoned>>
    /\ UNCHANGED <<new_result, delivered>>
    /\ UNCHANGED <<msg, queue, sent, committed, expect>>
    /\ UNCHANGED updVars
    /\ UNCHANGED extVars

\* lines 110-112: changed_properties.get(CHANGE_STATE), as_str().unwrap()
SubSigState ==
    /\ sub_pc = "sig_state"
    /\ IF msg.state = Absent
       THEN /\ sub_pc' = "sig_send"
            /\ UNCHANGED <<cur_state, panic_at, owner, poisoned>>
       ELSE IF IsStr(msg.state)
       THEN /\ cur_state' = [cur_state EXCEPT !.state = msg.state[2]]
            /\ sub_pc' = "sig_send"
            /\ UNCHANGED <<panic_at, owner, poisoned>>
       ELSE /\ SubPanic("sig_state")
            /\ PanicWithGuard
            /\ cur_state' = cur_state
    /\ UNCHANGED <<new_result, delivered>>
    /\ UNCHANGED <<msg, queue, sent, committed, expect>>
    /\ UNCHANGED updVars
    /\ UNCHANGED extVars

\* lines 113-116: send.send(Task { id, update_time }), the guard still alive
SubSend ==
    /\ sub_pc = "sig_send"
    /\ sent' = sent + 1
    /\ sub_pc' = "sig_unlock"
    /\ UNCHANGED <<cur_state, owner, poisoned, new_result, delivered>>
    /\ UNCHANGED <<panic_at, msg, queue, committed, expect>>
    /\ UNCHANGED updVars
    /\ UNCHANGED extVars

\* line 117: the if-let block ends and the guard is dropped
SubSigUnlock ==
    /\ sub_pc = "sig_unlock"
    /\ owner' = "none"
    /\ committed' = cur_state
    /\ msg' = NoMsg
    /\ sub_pc' = "iter"
    /\ UNCHANGED <<cur_state, poisoned, new_result, delivered>>
    /\ UNCHANGED <<panic_at, queue, sent, expect>>
    /\ UNCHANGED updVars
    /\ UNCHANGED extVars

\* ---- Block::update, the renderer -------------------------------------------
\* the scheduler calls update on a block that new returned
UpdateCall ==
    /\ new_result = "Ok"
    /\ upd_pc = "idle"
    /\ updates < MaxUpdates
    /\ updates' = updates + 1
    /\ upd_pc' = "lock"
    /\ upd_result' = "running"
    /\ call_path' = NoCall
    /\ r_state' = NotRead
    /\ UNCHANGED <<cur_state, owner, poisoned, new_result, delivered, network>>
    /\ UNCHANGED subVars
    /\ UNCHANGED extVars

\* an update in which the guard is not taken
Mut_UpdLock ==
    /\ upd_pc = "lock"
    /\ upd_pc' = "set_state"
    /\ UNCHANGED <<cur_state, owner, poisoned, new_result, delivered>>
    /\ UNCHANGED <<upd_result, updates, network, call_path, r_state>>
    /\ UNCHANGED subVars
    /\ UNCHANGED extVars

\* line 147: self.cur_state.lock().unwrap()
UpdLock ==
    /\ upd_pc = "lock"
    /\ owner = "none"
    /\ IF poisoned
       THEN upd_pc' = "idle" /\ upd_result' = "panic" /\ owner' = owner
       ELSE upd_pc' = "set_state" /\ upd_result' = upd_result /\ owner' = "upd"
    /\ UNCHANGED <<cur_state, poisoned, new_result, delivered>>
    /\ UNCHANGED <<updates, network, call_path, r_state>>
    /\ UNCHANGED subVars
    /\ UNCHANGED extVars

\* lines 148-149: self.network.set_state(get_widget_state(cur_state.state))
UpdSetState ==
    /\ upd_pc = "set_state"
    /\ r_state' = cur_state.state
    /\ network' = [network EXCEPT !.state = get_widget_state(cur_state.state)]
    /\ upd_pc' = "match"
    /\ UNCHANGED <<cur_state, owner, poisoned, new_result, delivered>>
    /\ UNCHANGED <<upd_result, updates, call_path>>
    /\ UNCHANGED subVars
    /\ UNCHANGED extVars

\* lines 150-156: the match on cur_state.state: the placeholder, or the
\* get_name call on the path cur_state.network_obj
UpdMatch ==
    /\ upd_pc = "match"
    /\ IF UsesPlaceholder(cur_state.state)
       THEN /\ network' = [network EXCEPT !.text = disconnected_str]
            /\ upd_pc' = "return"
            /\ call_path' = call_path
       ELSE /\ call_path' = cur_state.network_obj
            /\ upd_pc' = "get_name"
            /\ network' = network
    /\ UNCHANGED <<cur_state, owner, poisoned, new_result, delivered>>
    /\ UNCHANGED <<upd_result, updates, r_state>>
    /\ UNCHANGED subVars
    /\ UNCHANGED extVars

\* replies of the bus to Name on path p: the name of a known network object,
\* or an error (unknown object, no reply within TIMEOUT)
NameReplies(p) == (IF p \in NetworkObjs THEN {<<"Ok", NetworkName[p]>>} ELSE {}) \cup {<<"Err", "">>}

\* an update that shows the object path instead of the name
Mut_UpdGetName ==
    /\ upd_pc = "get_name"
    /\ network' = [network EXCEPT !.text = call_path]
    /\ upd_pc' = "return"
    /\ UNCHANGED <<cur_state, owner, poisoned, new_result, delivered>>
    /\ UNCHANGED <<upd_result, updates, call_path, r_state>>
    /\ UNCHANGED subVars
    /\ UNCHANGED extVars

\* lines 153-158: get_name(...).unwrap() returns and set_text takes the name
UpdGetName ==
    /\ upd_pc = "get_name"
    /\ \E r \in NameReplies(call_path) :
         IF r[1] = "Ok"
         THEN /\ network' = [network EXCEPT !.text = r[2]]
              /\ upd_pc' = "return"
              /\ UNCHANGED <<upd_result, owner, poisoned>>
         ELSE /\ upd_pc' = "idle"
              /\ upd_result' = "panic"
              /\ PanicWithGuard
              /\ network' = network
    /\ UNCHANGED <<cur_state, new_result, delivered>>
    /\ UNCHANGED <<updates, call_path, r_state>>
    /\ UNCHANGED subVars
    /\ UNCHANGED extVars

\* line 159: Ok(None), and the guard is dropped
UpdReturn ==
    /\ upd_pc = "return"
    /\ owner' = "none"
    /\ upd_pc' = "idle"
    /\ upd_result' = "Ok"
    /\ UNCHANGED <<cur_state, poisoned, new_result, delivered>>
    /\ UNCHANGED <<updates, network, call_path, r_state>>
    /\ UNCHANGED subVars
    /\ UNCHANGED extVars

\* ---- specification ----------------------------------------------------------
Next ==
    \/ NewReturn
    \/ SubConnect
    \/ SubInitLock
    \/ SubGetState
    \/ SubGetNetwork
    \/ SubInitUnlock
    \/ SubAddMatch
    \/ \E m \in Messages : Deliver(m)
    \/ SubNext
    \/ SubSigLock
    \/ SubSigNetwork
    \/ SubSigState
    \/ SubSend
    \/ SubSigUnlock
    \/ UpdateCall
    \/ UpdLock
    \/ UpdSetState
    \/ UpdMatch
    \/ UpdGetName
    \/ UpdReturn

Spec == Init /\ [][Next]_vars

\* ---- Block::click, the action handler --------------------------------------
MaxClicks == 1    \* invocations of Block::click in one behaviour

\* event.name of an I3BarEvent: None, the button's name, another name
EventNames == {"<None>", "disconnect", "other"}

\* a click that takes the state of the device it has just disconnected
Mut_click(name) ==
    /\ new_result = "Ok"
    /\ upd_pc = "idle"
    /\ clicks < MaxClicks
    /\ clicks' = clicks + 1
    /\ click_name' = name
    /\ click_cmd' = (name = "disconnect")
    /\ click_result' = "Ok"
    /\ cur_state' = IF name = "disconnect"
                    THEN [cur_state EXCEPT !.state = STATE_DISCONNECTED]
                    ELSE cur_state
    /\ UNCHANGED <<owner, poisoned, new_result, delivered, disconnect, dev>>
    /\ UNCHANGED subVars
    /\ UNCHANGED updVars

\* lines 162-172: on the name "disconnect" the Disconnect call is issued on
\* the device and its reply unwrapped; self.disconnect is not consulted.
\* click takes &mut self, as update does, so neither runs inside the other.
click(name) ==
    /\ new_result = "Ok"
    /\ upd_pc = "idle"
    /\ clicks < MaxClicks
    /\ clicks' = clicks + 1
    /\ click_name' = name
    /\ IF name = "disconnect"
       THEN /\ click_cmd' = TRUE
            /\ \E ok \in BOOLEAN : click_result' = IF ok THEN "Ok" ELSE "panic"
       ELSE /\ click_cmd' = FALSE
            /\ click_result' = "Ok"
    /\ UNCHANGED <<cur_state, owner, poisoned, new_result, delivered, disconnect, dev>>
    /\ UNCHANGED subVars
    /\ UNCHANGED updVars

\* lines 81-85: the button exists only with show_disconnect_btn
InitClick ==
    /\ InitProgram
    /\ disconnect \in {"None", "Some"}
    /\ dev = [state |-> STATE_DISCONNECTED, network_obj |-> ""]

\* signals of a device that connects and disconnects
ClickMessages ==
    {[kind |-> "props", network |-> Str("/net/n1"), state |-> Str(STATE_CONNECTED)],
     [kind |-> "props", network |-> Absent, state |-> Str(STATE_DISCONNECTED)]}

NextClick ==
    \/ NewReturn
    \/ SubConnect
    \/ SubInitLock
    \/ SubGetState
    \/ SubGetNetwork
    \/ SubInitUnlock
    \/ SubAddMatch
    \/ \E m \in ClickMessages : Deliver(m)
    \/ SubNext
    \/ SubSigLock
    \/ SubSigNetwork
    \/ SubSigState
    \/ SubSend
    \/ SubSigUnlock
    \/ UpdateCall
    \/ UpdLock
    \/ UpdSetState
    \/ UpdMatch
    \/ UpdGetName
    \/ UpdReturn
    \/ \E name \in EventNames : click(name)

SpecClick == InitClick /\ [][NextClick]_vars

\* ---- the device behind the bus ---------------------------------------------
\* the PropertiesChanged signal of a device that goes from old to new: the
\* properties whose value changed; a ConnectedNetwork that goes away is not
\* among the changed properties
ChangeSignal(old, new) ==
    [kind |-> "props",
     state |-> IF new.state # old.state THEN Str(new.state) ELSE Absent,
     network |-> IF new.network_obj # old.network_obj /\ new.network_obj \in NetworkObjs
                 THEN Str(new.network_obj) ELSE Absent]

\* the device changes; the daemon passes the signal to the subscriber's
\* connection only if its match rule is registered (lines 98-101)
DeviceChange(d) ==
    /\ d # dev
    /\ dev' = d
    /\ IF sub_pc \in LoopPcs
       THEN /\ delivered < MaxSignals
            /\ Len(queue) < MaxQueue
            /\ queue' = Append(queue, ChangeSignal(dev, d))
            /\ delivered' = delivered + 1
       ELSE UNCHANGED <<queue, delivered>>
    /\ UNCHANGED <<cur_state, owner, poisoned, new_result, disconnect>>
    /\ UNCHANGED <<sub_pc, panic_at, msg, sent, committed, expect>>
    /\ UNCHANGED updVars
    /\ UNCHANGED clickVars

\* get_state answered by the device: its state, or an error
SubGetStateDev ==
    /\ SubGetState
    /\ sub_pc' = "panicked" \/ cur_state'.state = dev.state

\* get_connected_network answered by the device: its network, or an error
SubGetNetworkDev ==
    /\ SubGetNetwork
    /\ sub_pc' = "panicked" \/ cur_state'.network_obj = dev.network_obj

InitDevice ==
    /\ InitProgram
    /\ disconnect = "None"
    /\ dev \in DevStates

NextDevice ==
    \/ NewReturn
    \/ SubConnect
    \/ SubInitLock
    \/ SubGetStateDev
    \/ SubGetNetworkDev
    \/ SubInitUnlock
    \/ SubAddMatch
    \/ \E d \in DevStates : DeviceChange(d)
    \/ SubNext
    \/ SubSigLock
    \/ SubSigNetwork
    \/ SubSigState
    \/ SubSend
    \/ SubSigUnlock

SpecDevice == InitDevice /\ [][NextDevice]_vars

\* ---- scheduling --------------------------------------------------------------
\* the spawned thread, update and new are threads the system keeps running,
\* and every bus call returns (a reply or an error) within TIMEOUT: each of
\* their steps is taken once it stays possible.  When the bus delivers a
\* message and when the scheduler calls update is left open.
Fairness ==
    /\ WF_vars(NewReturn)
    /\ WF_vars(SubConnect) /\ WF_vars(SubInitLock) /\ WF_vars(SubGetState)
    /\ WF_vars(SubGetNetwork) /\ WF_vars(SubInitUnlock) /\ WF_vars(SubAddMatch)
    /\ WF_vars(SubNext) /\ WF_vars(SubSigLock) /\ WF_vars(SubSigNetwork)
    /\ WF_vars(SubSigState) /\ WF_vars(SubSend) /\ WF_vars(SubSigUnlock)
    /\ WF_vars(UpdLock) /\ WF_vars(UpdSetState) /\ WF_vars(UpdMatch)
    /\ WF_vars(UpdGetName) /\ WF_vars(UpdReturn)

SpecFair == Init /\ [][Next]_vars /\ Fairness

TypeOK ==
    /\ cur_state \in [state : StateStrings \cup {""}, network_obj : NetworkObjs \cup {""}]
    /\ owner \in {"none", "sub", "upd"}
    /\ poisoned \in BOOLEAN
    /\ new_result \in {"pending", "Ok", "Err"}
    /\ msg \in PropsChangedMsgs \cup {NoMsg}
    /\ Len(queue) <= MaxQueue
    /\ delivered <= MaxSignals
    /\ sent <= delivered
    /\ updates <= MaxUpdates
    /\ upd_result \in {"none", "running", "Ok", "panic"}

\* ---- claims -----------------------------------------------------------------
\* the thread has left the loop by a panic
LoopPanicked == sub_pc = "panicked" /\ panic_at \in {"sig_lock", "sig_network", "sig_state"}

\* the thread has not written to IWDPrivate
SubWroteNothing ==
    \/ sub_pc \in {"connect", "init_lock", "get_state"}
    \/ sub_pc = "panicked" /\ panic_at \in {"connect", "init_lock", "get_state"}

\* C1: after the signals the loop has taken, each field of LinkState holds the
\* string carried by the last signal that named the field, and a field no
\* signal named holds what the initial fetch left there.
C1_LastValuePerField ==
    (sub_pc = "iter" \/ LoopPanicked) => cur_state = expect

\* C2: the state string and the object path an update reads are those of
\* LinkState as the subscriber last committed it (its guard dropped): never
\* one field from before and the other from after one subscriber update.
C2_AtomicPair ==
    /\ (upd_pc \in {"match", "get_name", "return"}) => r_state = committed.state
    /\ (upd_pc \in {"get_name", "return"} /\ call_path # NoCall)
          => call_path = committed.network_obj

\* an update has read both fields while the subscriber waits for the guard
\* with a signal that changes both
C2_Witness ==
    /\ upd_pc = "get_name"
    /\ sub_pc = "sig_lock"
    /\ IsStr(msg.state) /\ msg.state[2] # cur_state.state
    /\ IsStr(msg.network) /\ msg.network[2] # cur_state.network_obj

\* C3: when a startup step of the subscriber fails (connection, initial
\* fetch, match rule), ConfigBlock::new does not return Ok.
C3_StartupFailureFailsNew ==
    (sub_pc = "panicked" /\ panic_at \in {"connect", "get_state", "get_network", "add_match"})
        => new_result # "Ok"

\* C4: a State or ConnectedNetwork value that is not a string does not end
\* the loop and leaves the lock usable.
C4_LoopSurvivesBadValue ==
    ~(sub_pc = "panicked" /\ panic_at \in {"sig_network", "sig_state"})

\* C5: an update whose name-resolution call fails (here: a call against a
\* known network object) ends with an error for its caller and leaves the
\* lock usable for the subscriber and later updates.
C5_NameFailureIsOneShot ==
    (upd_pc = "idle" /\ call_path \in NetworkObjs /\ upd_result # "Ok")
        => (upd_result = "Err" /\ ~poisoned)

\* C6: an update that reads the state "disconnected" issues no
\* name-resolution call, whatever network_obj holds.
C6_DisconnectedNoCall ==
    r_state = STATE_DISCONNECTED => call_path = NoCall

\* an update has finished on "disconnected" with a stale object path stored
C6_Witness ==
    /\ r_state = STATE_DISCONNECTED
    /\ upd_result = "Ok"
    /\ cur_state.network_obj \in NetworkObjs

\* C7: an update that runs before the subscriber has written anything
\* observes the state "disconnected".
C7_InitialDisconnected ==
    (r_state # NotRead /\ SubWroteNothing) => r_state = STATE_DISCONNECTED

\* C8 (as stated): when the state an update reads is not "connected", the
\* object path is empty or no name-resolution call is issued against it.
C8_NotConnectedNoCall ==
    (r_state # NotRead /\ r_state # STATE_CONNECTED) => call_path \in {NoCall, ""}

\* C8 (amended): an update that reads "disconnected" or "disconnecting"
\* issues no name-resolution call; on every other state string it issues
\* the call against the stored object path.
C8_PlaceholderStatesNoCall ==
    /\ r_state \in {STATE_DISCONNECTED, STATE_DISCONNECTING} => call_path = NoCall
    /\ (upd_pc \in {"get_name", "return"}
          /\ r_state \notin {STATE_DISCONNECTED, STATE_DISCONNECTING})
          => call_path = cur_state.network_obj

\* an update has finished on "disconnecting" with an object path stored
C8_Witness ==
    /\ r_state = STATE_DISCONNECTING
    /\ upd_result = "Ok"
    /\ cur_state.network_obj \in NetworkObjs

\* C9: an update that reads "connected" and whose name-resolution call
\* succeeds shows the resolved name with severity good.
C9_ConnectedShowsName ==
    (upd_result = "Ok" /\ r_state = STATE_CONNECTED)
        => /\ call_path \in NetworkObjs
           /\ network.text = NetworkName[call_path]
           /\ network.state = "Good"

\* the scenario of the claim: "connected", "/net/n1", "HomeWiFi"
C9_Witness ==
    /\ upd_result = "Ok"
    /\ r_state = STATE_CONNECTED
    /\ call_path = "/net/n1"
    /\ network = [text |-> "HomeWiFi", state |-> "Good"]

\* C10: the severity an update sets is critical for "disconnected", good
\* for "connected" and warning for every other string it reads.
C10_SeverityOfState ==
    r_state # NotRead =>
        network.state = CASE r_state = "disconnected" -> "Critical"
                          [] r_state = "connected" -> "Good"
                          [] OTHER -> "Warning"

\* an update has finished with warning on a string the block has no
\* constant for
C10_Witness ==
    /\ r_state = "connecting"
    /\ network.state = "Warning"
    /\ upd_result = "Ok"

\* the signal of C11: State changes to "disconnecting", nothing else named
OnlyDisconnecting == [kind |-> "props", network |-> Absent, state |-> Str(STATE_DISCONNECTING)]

\* C11: a signal that names only State = "disconnecting" leaves network_obj
\* as it was before the signal and sets state to "disconnecting"; an update
\* that reads "disconnecting" shows the placeholder with severity warning
\* and issues no name-resolution call.
C11_DisconnectingSignal ==
    /\ (sub_pc \in {"sig_send", "sig_unlock"} /\ msg = OnlyDisconnecting)
          => cur_state = [state |-> STATE_DISCONNECTING,
                          network_obj |-> committed.network_obj]
    /\ ((upd_pc = "return" \/ upd_result = "Ok") /\ r_state = STATE_DISCONNECTING)
          => /\ network = [text |-> disconnected_str, state |-> "Warning"]
             /\ call_path = NoCall

\* after one signal, taken and notified, an update has finished on
\* "disconnecting" with the object path of the network still stored
C11_Witness ==
    /\ delivered = 1 /\ sent = 1 /\ sub_pc = "iter"
    /\ cur_state = [state |-> STATE_DISCONNECTING, network_obj |-> "/net/n1"]
    /\ expect = cur_state
    /\ upd_result = "Ok" /\ upd_pc = "idle"
    /\ r_state = STATE_DISCONNECTING

\* C12: with no button configured (show_disconnect_btn = false), a click
\* named "disconnect" while the state is "disconnected" issues no Disconnect
\* call and returns without error.
C12_NoButtonNoCommand ==
    (disconnect = "None" /\ click_name = "disconnect"
        /\ cur_state.state = STATE_DISCONNECTED)
        => (~click_cmd /\ click_result = "Ok")

\* C13: no step of update and no step of click, whatever their outcome and
\* whatever the event name, changes a field of LinkState.
C13_OnlySubscriberWrites ==
    [][(updVars' # updVars \/ clickVars' # clickVars) => cur_state' = cur_state]_vars

\* an update and a click that issued the command have both finished while
\* LinkState holds what the subscriber wrote
C13_Witness ==
    /\ click_name = "disconnect" /\ click_cmd /\ click_result = "Ok"
    /\ upd_result = "Ok" /\ upd_pc = "idle"
    /\ cur_state = [state |-> STATE_CONNECTED, network_obj |-> "/net/n1"]

\* C14: no context holds the LinkState lock while a blocking bus call is in
\* flight: not update during get_name, not the subscriber during get_state
\* and get_connected_network.
C14_NoLockAcrossBusCall ==
    /\ upd_pc = "get_name" => owner # "upd"
    /\ sub_pc \in {"get_state", "get_network"} => owner # "sub"

\* C15: a Task is sent to the scheduler only after the subscriber has
\* released the lock it took for the signal.
C15_SendAfterRelease ==
    [][sent' # sent => owner # "sub"]_vars

\* C16: a message that is no PropertiesChanged signal, or one that names
\* neither State nor ConnectedNetwork, changes no LinkState field and causes
\* no Task to be sent.
C16_OtherMessagesDiscarded ==
    [][((msg.kind = "props" /\ msg.state = Absent /\ msg.network = Absent)
          \/ (queue # <<>> /\ queue' = Tail(queue) /\ Head(queue).kind # "props"))
          => (cur_state' = cur_state /\ sent' = sent)]_vars

\* a PropertiesChanged signal whose values are strings and which names State
\* or ConnectedNetwork
WellFormedQualifying(m) ==
    /\ m.kind = "props"
    /\ m.state # NonStr /\ m.network # NonStr
    /\ m.state # Absent \/ m.network # Absent

\* C17: every well-formed signal that names State or ConnectedNetwork gets
\* its Task, one for each: none is taken by the loop and left without its
\* notification, and never are more Tasks sent than messages were taken.
C17_OneTaskPerSignal ==
    /\ ~(LoopPanicked /\ WellFormedQualifying(msg))
    /\ sub_pc = "iter" => sent <= delivered - Len(queue)

\* C18: once the subscriber has worked off every signal delivered to it,
\* LinkState shows the state the device is in, whenever during startup the
\* device changed.
C18_NoChangeLost ==
    (sub_pc = "iter" /\ queue = <<>>) => cur_state.state = dev.state

\* C19: the subscriber and update do not block each other for ever on the
\* lock: every update that has been called ends, and every well-formed
\* signal waiting on the subscriber's connection is in the end written to
\* LinkState.
C19_Progress ==
    /\ [](upd_pc = "lock" => <>(upd_pc = "idle"))
    /\ []((queue # <<>> /\ WellFormedQualifying(Head(queue)))
            => <>(sub_pc = "sig_send" /\ expect = cur_state))

\* C20: when the Task for a signal is sent, LinkState already holds every
\* string the signal carries; and an update that reads while every signal
\* taken so far has been notified reads the state the last of them left.
C20_WriteBeforeNotify ==
    [][/\ sent' # sent =>
            /\ IsStr(msg.state) => cur_state.state = msg.state[2]
            /\ IsStr(msg.network) => cur_state.network_obj = msg.network[2]
       /\ (r_state' # r_state /\ r_state' # NotRead /\ sub_pc = "iter")
            => r_state' = expect.state]_vars

\* the Task of a signal that changes the state has been sent, and an update
\* called by then waits for the lock
C20_Witness ==
    /\ sub_pc = "sig_unlock"
    /\ IsStr(msg.state) /\ msg.state[2] # committed.state
    /\ cur_state.state = msg.state[2]
    /\ upd_pc = "lock"

====
